---- MODULE Spec2Model ----
(***************************************************************************)
(* Test-data builders, the test-data factory and the process-wide seeded   *)
(* generator of the playwright-framework repository.                       *)
(*                                                                         *)
(* Modelling conventions                                                   *)
(*  - A Partial<T> (the overrides a builder accumulates) is a function     *)
(*    whose DOMAIN is the set of fields that were assigned; `x ?? d` is    *)
(*    "x if the field is in the DOMAIN, else d".  A field whose value is   *)
(*    undefined in a built entity is absent from the entity's DOMAIN.      *)
(*  - The faker generator is a deterministic generator over a finite state *)
(*    0..GenMod-1: seeding fixes the state from the seed alone, every      *)
(*    faker call reads the state and advances it once.                     *)
(*  - Prices are integers in cents (29.99 is 2999).                        *)
(*  - Skus and order numbers are sequences of one-character strings, so    *)
(*    that toUpperCase() is a real conversion.                             *)
(***************************************************************************)
EXTENDS Integers, Sequences, FiniteSets, TLC

VARIABLES
    gen,        \* state of the process-wide faker generator
    builders,   \* builder instances: slot -> NoBuilder or [kind, o, asked]
    last,       \* outcome of the latest builder / factory call
    run,        \* builds made since the latest setSeed
    prev,       \* the run that the latest setSeed closed
    test,       \* a seeded test whose builds share the generator with other tests
    refs,       \* an OrderBuilder and the orders it returned, as object references
    fx,         \* a test run under the extended fixtures and its attachments
    penv,       \* process.env and the outcome of the latest config call
    rt,         \* a call of one of the retry helpers in progress
    net,        \* the request listeners registered on one page
    gs,         \* a run of globalSetup
    hh          \* a page's headings and the outcome of checkHeadingHierarchy

vars == <<gen, builders, last, run, prev, test, refs, fx, penv, rt, net, gs, hh>>

\* the variables that the builder, factory and seeding operations never touch
aux == <<refs, fx, penv, rt, net, gs, hh>>

\* the variables of the data builders, factory and seeding
data == <<gen, builders, last, run, prev, test>>

----------------------------------------------------------------------------
(* Bounds of the model *)

GenMod == 8          \* number of generator states
MaxSeed == 2         \* seeds are 0..MaxSeed
MaxRun == 2          \* builds recorded after one setSeed
MaxOverrides == 2    \* fields in an overrides record passed to the factory
MaxCount == 2        \* largest count passed to the bulk factory methods
MaxPageEvents == 2   \* console messages / requests of the page during one test
MaxAttempts == 3     \* largest maxAttempts passed to retry / retryWithBackoff
MaxRequests == 3     \* requests the page makes while listeners are observed
MaxHeadings == 3     \* headings on the page that is checked
MaxCells == 2        \* arrays, partials and orders allocated by one OrderBuilder

Seeds == 0..MaxSeed
GenStates == 0..(GenMod - 1)

----------------------------------------------------------------------------
(* The faker generator *)

\* faker.seed(s): the state after seeding depends on s only
SeedState(s) == s % GenMod

\* every faker call advances the generator
NextGen(g) == (5 * g + 3) % GenMod

\* choice of an element of a pool from the generator state
Draw(pool, g) == pool[(g % Len(pool)) + 1]

AlnumChars == <<"a", "7", "K", "q", "2", "Z", "b">>
UpperMap == [c \in {"a", "b", "q"} |->
                IF c = "a" THEN "A" ELSE IF c = "b" THEN "B" ELSE "Q"]

person_firstName(g) == Draw(<<"Ann", "Bob", "Cyd">>, g)
person_lastName(g) == Draw(<<"Ames", "Bell">>, g)
internet_email(g) == Draw(<<"ann@mail.test", "bob@mail.test", "cyd@mail.test">>, g)
\* faker.internet.password({ length: 12 }) and faker.internet.password()
internet_password(len, g) ==
    IF len = 12 THEN Draw(<<"k3Jx9QmB2aTe", "Zt7Lw0RcY5uN">>, g)
                ELSE Draw(<<"k3Jx9QmB2aTeW4s", "Zt7Lw0RcY5uNh8d">>, g)
location_streetAddress(g) == Draw(<<"12 Oak Ave", "7 Elm Rd">>, g)
location_city(g) == Draw(<<"Salem", "Dover", "Troy">>, g)
location_state(abbreviated, g) ==
    IF abbreviated THEN Draw(<<"OH", "UT">>, g) ELSE Draw(<<"Ohio", "Utah">>, g)
location_zipCode(g) == Draw(<<"43004", "84101">>, g)
location_country(g) == Draw(<<"France", "United States", "Peru">>, g)
commerce_productName(g) == Draw(<<"Steel Chair", "Soft Hat">>, g)
commerce_productDescription(g) ==
    Draw(<<"A sturdy chair", "A warm hat", "A fine thing">>, g)
commerce_department(g) == Draw(<<"Toys", "Garden">>, g)
datatype_boolean(g) == (g % 2) = 0

\* faker.commerce.price({ min, max }): a decimal string "<whole>.<cents>"
\* with min <= whole <= max, kept as its two parts
commerce_price(min, max, g) ==
    [whole |-> min + (g % (max - min + 1)), cents |-> 0]

\* parseFloat of such a string, in cents
parseFloat(p) == p.whole * 100 + p.cents

\* faker.number.int({ min, max })
number_int(min, max, g) == min + (g % (max - min + 1))

\* faker.string.alphanumeric(n): n characters, letters of both cases and digits
string_alphanumeric(n, g) ==
    [i \in 1..n |-> AlnumChars[((g + i) % Len(AlnumChars)) + 1]]

\* a conversion that leaves the case of every character as it is
KeepCase(s) == s

\* String.prototype.toUpperCase
toUpperCase(s) ==
    [i \in 1..Len(s) |-> IF s[i] \in DOMAIN UpperMap THEN UpperMap[s[i]] ELSE s[i]]

----------------------------------------------------------------------------
(* Partial<T> and the ?? operator *)

EmptyPartial == <<>>

Has(o, f) == f \in DOMAIN o

\* a store that keeps the value of the first call for a field
AssignKeepFirst(o, f, v) == o @@ (f :> v)

\* this.x.f = v
Assign(o, f, v) == (f :> v) @@ o

\* o.f ?? d, where d is produced by one faker call on generator state g:
\* the right-hand side is evaluated, and the generator consumed, only when
\* o.f is undefined
Coalesce(o, f, d, g) ==
    IF Has(o, f) THEN [v |-> o[f], g |-> g]
                 ELSE [v |-> d, g |-> NextGen(g)]

\* o.f ?? c, where c is a literal
CoalesceConst(o, f, c) == IF Has(o, f) THEN o[f] ELSE c

\* { ..., f: o.f }: the field is undefined unless it was assigned
Optional(o, f) == IF Has(o, f) THEN (f :> o[f]) ELSE EmptyPartial

----------------------------------------------------------------------------
(* UserBuilder *)

UserBuilder_build(o, g) ==
    LET a == Coalesce(o, "firstName", person_firstName(g), g)
        b == Coalesce(o, "lastName", person_lastName(a.g), a.g)
        c == Coalesce(o, "email", internet_email(b.g), b.g)
        d == Coalesce(o, "password", internet_password(12, c.g), c.g)
    IN  [res |-> [firstName |-> a.v, lastName |-> b.v,
                  email |-> c.v, password |-> d.v] @@ Optional(o, "phone"),
         g |-> d.g]

----------------------------------------------------------------------------
(* AddressBuilder *)

AddressBuilder_buildUS(o, g) ==
    LET a == Coalesce(o, "street", location_streetAddress(g), g)
        b == Coalesce(o, "city", location_city(a.g), a.g)
        c == Coalesce(o, "state", location_state(TRUE, b.g), b.g)
        d == Coalesce(o, "zipCode", location_zipCode(c.g), c.g)
    IN  [res |-> [street |-> a.v, city |-> b.v, state |-> c.v, zipCode |-> d.v,
                  country |-> CoalesceConst(o, "country", "United States")],
         g |-> d.g]

AddressBuilder_build(o, g) ==
    LET a == Coalesce(o, "street", location_streetAddress(g), g)
        b == Coalesce(o, "city", location_city(a.g), a.g)
        c == Coalesce(o, "state", location_state(FALSE, b.g), b.g)
        d == Coalesce(o, "zipCode", location_zipCode(c.g), c.g)
        e == Coalesce(o, "country", location_country(d.g), d.g)
    IN  [res |-> [street |-> a.v, city |-> b.v, state |-> c.v, zipCode |-> d.v,
                  country |-> e.v],
         g |-> e.g]

----------------------------------------------------------------------------
(* ProductBuilder *)

ProductBuilder_build(o, g) ==
    LET a == Coalesce(o, "name", commerce_productName(g), g)
        b == Coalesce(o, "description", commerce_productDescription(a.g), a.g)
        c == Coalesce(o, "price", parseFloat(commerce_price(10, 1000, b.g)), b.g)
        d == Coalesce(o, "sku", toUpperCase(string_alphanumeric(10, c.g)), c.g)
        e == Coalesce(o, "category", commerce_department(d.g), d.g)
        f == Coalesce(o, "inStock", datatype_boolean(e.g), e.g)
    IN  [res |-> [name |-> a.v, description |-> b.v, price |-> c.v, sku |-> d.v,
                  category |-> e.v, inStock |-> f.v] @@ Optional(o, "quantity"),
         g |-> f.g]

\* a stock build that lets an earlier withStockStatus value stand
ProductBuilder_buildKeepStock(o, inStock, g) ==
    ProductBuilder_build(AssignKeepFirst(o, "inStock", inStock), g)

\* this.withStockStatus(b).build(): the override is stored, then build runs
ProductBuilder_buildWithStock(o, inStock, g) ==
    ProductBuilder_build(Assign(o, "inStock", inStock), g)

----------------------------------------------------------------------------
(* OrderBuilder *)

\* a quantity drawn from 0..5
DefaultQuantityFromZero(g) == number_int(0, 5, g)

\* quantity: faker.number.int({ min: 1, max: 5 })
DefaultQuantity(g) == number_int(1, 5, g)

\* the item list build() makes when this.order.items is undefined
DefaultItems(g) ==
    LET g1 == NextGen(g)
        g2 == NextGen(g1)
        g3 == NextGen(g2)
        g4 == NextGen(g3)
        g5 == NextGen(g4)
        g6 == NextGen(g5)
    IN  [v |-> << [product |-> [name |-> commerce_productName(g),
                                description |-> commerce_productDescription(g1),
                                price |-> parseFloat(commerce_price(10, 100, g2)),
                                sku |-> toUpperCase(string_alphanumeric(10, g3)),
                                category |-> commerce_department(g4),
                                inStock |-> TRUE],
                    quantity |-> DefaultQuantity(g5),
                    price |-> parseFloat(commerce_price(10, 100, g6))] >>,
         g |-> NextGen(g6)]

\* a sum of the item prices that leaves the quantities out
RECURSIVE SubtotalOfPrices(_)
SubtotalOfPrices(items) ==
    IF items = <<>> THEN 0
    ELSE SubtotalOfPrices(SubSeq(items, 1, Len(items) - 1)) + items[Len(items)].price

\* items.reduce((sum, item) => sum + item.price * item.quantity, 0)
RECURSIVE Subtotal(_)
Subtotal(items) ==
    IF items = <<>> THEN 0
    ELSE Subtotal(SubSeq(items, 1, Len(items) - 1))
         + items[Len(items)].price * items[Len(items)].quantity

DefaultUser(g) ==
    LET g1 == NextGen(g)
        g2 == NextGen(g1)
        g3 == NextGen(g2)
    IN  [v |-> [firstName |-> person_firstName(g), lastName |-> person_lastName(g1),
                email |-> internet_email(g2), password |-> internet_password(15, g3)],
         g |-> NextGen(g3)]

\* a default shipping address whose country is drawn from the generator
DefaultShippingAddressAnyCountry(g) ==
    LET g1 == NextGen(g)
        g2 == NextGen(g1)
        g3 == NextGen(g2)
    IN  [v |-> [street |-> location_streetAddress(g), city |-> location_city(g1),
                state |-> location_state(TRUE, g2), zipCode |-> location_zipCode(g3),
                country |-> location_country(g3)],
         g |-> NextGen(g3)]

DefaultShippingAddress(g) ==
    LET g1 == NextGen(g)
        g2 == NextGen(g1)
        g3 == NextGen(g2)
    IN  [v |-> [street |-> location_streetAddress(g), city |-> location_city(g1),
                state |-> location_state(TRUE, g2), zipCode |-> location_zipCode(g3),
                country |-> "United States"],
         g |-> NextGen(g3)]

OrderPrefix == <<"O", "R", "D", "-">>

OrderBuilder_build(o, g) ==
    LET it == IF Has(o, "items") THEN [v |-> o["items"], g |-> g] ELSE DefaultItems(g)
        subtotal == Subtotal(it.v)
        n == Coalesce(o, "orderNumber",
                      OrderPrefix \o toUpperCase(string_alphanumeric(8, it.g)), it.g)
        u == IF Has(o, "user") THEN [v |-> o["user"], g |-> n.g] ELSE DefaultUser(n.g)
        s == IF Has(o, "shippingAddress")
             THEN [v |-> o["shippingAddress"], g |-> u.g]
             ELSE DefaultShippingAddress(u.g)
    IN  [res |-> [orderNumber |-> n.v, user |-> u.v, items |-> it.v,
                  shippingAddress |-> s.v, total |-> subtotal,
                  status |-> CoalesceConst(o, "status", "pending"),
                  paymentMethod |-> CoalesceConst(o, "paymentMethod", "Credit Card")]
                 @@ Optional(o, "billingAddress"),
         g |-> s.g]

SimpleItems ==
    << [product |-> [name |-> "Test Product", description |-> "A test product",
                     price |-> 2999, sku |-> <<"T", "E", "S", "T", "-", "0", "0", "1">>,
                     category |-> "Test", inStock |-> TRUE],
        quantity |-> 1,
        price |-> 2999] >>

\* a simple build that lets items set earlier stand
OrderBuilder_buildSimpleKeepItems(o, g) ==
    OrderBuilder_build(AssignKeepFirst(o, "items", SimpleItems), g)

\* this.withItems([...]).build()
OrderBuilder_buildSimple(o, g) ==
    OrderBuilder_build(Assign(o, "items", SimpleItems), g)

Kinds == {"user", "address", "product", "order"}

\* new UserBuilder().build(), new AddressBuilder().build(), ...
FreshBuild(kind, g) ==
    CASE kind = "user" -> UserBuilder_build(EmptyPartial, g)
      [] kind = "address" -> AddressBuilder_build(EmptyPartial, g)
      [] kind = "product" -> ProductBuilder_build(EmptyPartial, g)
      [] kind = "order" -> OrderBuilder_build(EmptyPartial, g)

----------------------------------------------------------------------------
(* Values the test code passes to the mutators *)

EmailValues == {"", "a@x.com"}
PasswordValues == {"P1"}
FirstNameValues == {"Zed"}
LastNameValues == {"Roe"}
PhoneValues == {"555-123-4567"}
StreetValues == {"1 Main St"}
CityValues == {"Springfield"}
StateValues == {"Ontario"}
ZipCodeValues == {"12345"}
CountryValues == {"Canada", "United States"}
NameValues == {"Widget"}
DescriptionValues == {"Nice"}
PriceValues == {-500, 1999}
SkuValues == {<<"a", "b", "-", "1">>}
CategoryValues == {"Tools"}
QuantityValues == {0}
OrderNumberValues == {<<"N", "1">>}
AdminUser == [firstName |-> "Admin", lastName |-> "User",
              email |-> "admin@example.com", password |-> "AdminPass123!"]
UserValues == {AdminUser}
HomeAddress == [street |-> "1 Main St", city |-> "Springfield", state |-> "IL",
                zipCode |-> "62701", country |-> "United States"]
AddressValues == {HomeAddress}
Gadget == [name |-> "Gadget", description |-> "A gadget", price |-> 500,
           sku |-> <<"G", "1">>, category |-> "Tools", inStock |-> TRUE]
ItemsValues ==
    { <<>>,
      << [product |-> Gadget, quantity |-> 2, price |-> 500] >>,
      << [product |-> Gadget, quantity |-> 3, price |-> 500],
         [product |-> Gadget, quantity |-> 0, price |-> 1250] >> }
StatusValues == {"shipped"}
\* status: 'pending' | 'processing' | 'shipped' | 'delivered' | 'cancelled'
OrderStatuses == {"pending", "processing", "shipped", "delivered", "cancelled"}
PaymentMethodValues == {"PayPal"}

----------------------------------------------------------------------------
(* Builder instances *)

Slots == {1, 2}

NoRes == <<>>

NoBuilder == [kind |-> "none", o |-> EmptyPartial, asked |-> EmptyPartial]

\* the outcome of a call that returns no entity
Plain(op, i) ==
    [op |-> op, slot |-> i, kind |-> builders[i].kind, threw |-> FALSE,
     ret |-> i, g0 |-> gen, o |-> EmptyPartial, asked |-> EmptyPartial,
     res |-> NoRes]

\* the outcome of a build call that returned entity res: o is the partial the
\* builder held when the call began, asked what it holds when the call returns,
\* g0 the generator state when the call began
Built(op, i, b, res) ==
    [op |-> op, slot |-> i, kind |-> b.kind, threw |-> FALSE,
     ret |-> 0, g0 |-> gen, o |-> builders[i].o, asked |-> b.asked,
     res |-> res]

\* what the caller asked for: the value of the latest withX call per field
Note(asked, f, v) ==
    [x \in DOMAIN asked \cup {f} |-> IF x = f THEN v ELSE asked[x]]

\* new UserBuilder(), new AddressBuilder(), ...: the private partial starts as {}
NewBuilder(i, kind) ==
    /\ builders' = [builders EXCEPT ![i] =
                        [kind |-> kind, o |-> EmptyPartial, asked |-> EmptyPartial]]
    /\ last' = [Plain("new", i) EXCEPT !.kind = kind]
    /\ UNCHANGED <<gen, run, prev, test, aux>>

\* withX(v) { this.x.f = v; return this; }
With(i, kind, f, v) ==
    /\ builders[i].kind = kind
    /\ builders' = [builders EXCEPT ![i].o = Assign(@, f, v),
                                    ![i].asked = Note(@, f, v)]
    /\ last' = Plain("with", i)
    /\ UNCHANGED <<gen, run, prev, test, aux>>

\* a phone override kept in state shared by every UserBuilder instance
withPhoneShared(i, v) ==
    /\ builders[i].kind = "user"
    /\ builders' = [j \in Slots |->
                        IF j = i
                        THEN [builders[j] EXCEPT !.o = Assign(@, "phone", v),
                                                 !.asked = Note(@, "phone", v)]
                        ELSE IF builders[j].kind = "user"
                             THEN [builders[j] EXCEPT !.o = Assign(@, "phone", v)]
                             ELSE builders[j]]
    /\ last' = Plain("with", i)
    /\ UNCHANGED <<gen, run, prev, test, aux>>

withEmail(i, v) == With(i, "user", "email", v)
withPassword(i, v) == With(i, "user", "password", v)
withFirstName(i, v) == With(i, "user", "firstName", v)
withLastName(i, v) == With(i, "user", "lastName", v)
withPhone(i, v) == With(i, "user", "phone", v)

withStreet(i, v) == With(i, "address", "street", v)
withCity(i, v) == With(i, "address", "city", v)
withState(i, v) == With(i, "address", "state", v)
withZipCode(i, v) == With(i, "address", "zipCode", v)
withCountry(i, v) == With(i, "address", "country", v)

withName(i, v) == With(i, "product", "name", v)
withDescription(i, v) == With(i, "product", "description", v)
withPrice(i, v) == With(i, "product", "price", v)
withSku(i, v) == With(i, "product", "sku", v)
withCategory(i, v) == With(i, "product", "category", v)
withStockStatus(i, v) == With(i, "product", "inStock", v)
withQuantity(i, v) == With(i, "product", "quantity", v)

withOrderNumber(i, v) == With(i, "order", "orderNumber", v)
withUser(i, v) == With(i, "order", "user", v)
withItems(i, v) == With(i, "order", "items", v)
withShippingAddress(i, v) == With(i, "order", "shippingAddress", v)
withBillingAddress(i, v) == With(i, "order", "billingAddress", v)
withStatus(i, v) == With(i, "order", "status", v)
withPaymentMethod(i, v) == With(i, "order", "paymentMethod", v)

\* a terminal call that leaves the builder as it is
Terminal(i, kind, op, out) ==
    /\ builders[i].kind = kind
    /\ gen' = out.g
    /\ last' = Built(op, i, builders[i], out.res)
    /\ UNCHANGED <<builders, run, prev, test, aux>>

\* a terminal call that first stores override f := v through the mutator
TerminalWith(i, kind, op, f, v, out) ==
    /\ builders[i].kind = kind
    /\ gen' = out.g
    /\ builders' = [builders EXCEPT ![i].o = Assign(@, f, v),
                                    ![i].asked = Note(@, f, v)]
    /\ last' = Built(op, i, builders'[i], out.res)
    /\ UNCHANGED <<run, prev, test, aux>>

UserBuild(i) ==
    Terminal(i, "user", "build", UserBuilder_build(builders[i].o, gen))

AddressBuild(i) ==
    Terminal(i, "address", "build", AddressBuilder_build(builders[i].o, gen))

AddressBuildUS(i) ==
    Terminal(i, "address", "buildUS", AddressBuilder_buildUS(builders[i].o, gen))

ProductBuild(i) ==
    Terminal(i, "product", "build", ProductBuilder_build(builders[i].o, gen))

ProductBuildInStock(i) ==
    TerminalWith(i, "product", "buildInStock", "inStock", TRUE,
                 ProductBuilder_buildWithStock(builders[i].o, TRUE, gen))

ProductBuildOutOfStock(i) ==
    TerminalWith(i, "product", "buildOutOfStock", "inStock", FALSE,
                 ProductBuilder_buildWithStock(builders[i].o, FALSE, gen))

OrderBuild(i) ==
    Terminal(i, "order", "build", OrderBuilder_build(builders[i].o, gen))

OrderBuildSimple(i) ==
    TerminalWith(i, "order", "buildSimple", "items", SimpleItems,
                 OrderBuilder_buildSimple(builders[i].o, gen))

\* a reset that also consumes the process-wide generator
ResetAndDraw(i, kind) ==
    /\ builders[i].kind = kind
    /\ builders' = [builders EXCEPT ![i].o = EmptyPartial, ![i].asked = EmptyPartial]
    /\ gen' = NextGen(gen)
    /\ last' = Plain("reset", i)
    /\ UNCHANGED <<run, prev, test, aux>>

\* reset() { this.x = {}; return this; }
Reset(i, kind) ==
    /\ builders[i].kind = kind
    /\ builders' = [builders EXCEPT ![i].o = EmptyPartial, ![i].asked = EmptyPartial]
    /\ last' = Plain("reset", i)
    /\ UNCHANGED <<gen, run, prev, test, aux>>

AddressReset(i) == Reset(i, "address")
ProductReset(i) == Reset(i, "product")
OrderReset(i) == Reset(i, "order")

\* UserBuilder declares no reset method: builder.reset() raises a TypeError
\* and the builder keeps what it had accumulated
UserReset(i) ==
    /\ builders[i].kind = "user"
    /\ last' = [Plain("reset", i) EXCEPT !.threw = TRUE, !.ret = 0]
    /\ UNCHANGED <<gen, builders, run, prev, test, aux>>

----------------------------------------------------------------------------
(* Seeded runs and tests sharing the generator: state *)

NoSeed == -1

NoRun == [seed |-> NoSeed, ops |-> <<>>, res |-> <<>>]

NoTest == [seed |-> NoSeed, ops |-> <<>>, res |-> <<>>, dirty |-> FALSE]

\* one builder whose private partial is the empty object, nothing returned yet
NoRefs == [arrays |-> <<>>, partials |-> <<EmptyPartial>>, order |-> 1,
           entities |-> <<>>, snaps |-> <<>>, op |-> "new",
           before |-> EmptyPartial]

\* no environment variable is set and no config function was called
NoEnv == [vars |-> EmptyPartial, op |-> "none", out |-> ""]

\* no retry helper was called
NoRetry == [pc |-> "idle", fn |-> "none"]

\* a page with no listener registered
NoNet == [listeners |-> {},
          w |-> [i \in {1, 2} |-> [kind |-> "none", state |-> "none", pattern |-> <<>>,
                                   count |-> 0, requestCount |-> 0, emitted |-> 0]],
          cap |-> [on |-> FALSE, listening |-> FALSE, pattern |-> <<>>,
                   requests |-> <<>>, matched |-> 0],
          made |-> 0]

\* globalSetup has not started
NoSetup == [pc |-> "idle", env |-> EmptyPartial, baseURL |-> "", launched |-> FALSE,
            closed |-> FALSE, loggedIn |-> FALSE, saved |-> FALSE, caught |-> "",
            outcome |-> "none", error |-> ""]

\* no page was checked
NoHeadings == [tags |-> <<>>, op |-> "none", out |-> TRUE, scanned |-> 0]

\* no test has run yet
NoFx == [pc |-> "idle", status |-> "none", consoles |-> 0, requests |-> 0,
         attached |-> {}, captures |-> 0, rejected |-> FALSE,
         outcome |-> [kind |-> "none", v |-> ""]]

----------------------------------------------------------------------------
(* One builder at a time: creation, overrides, terminal calls, reset *)

NoCall == [op |-> "none", slot |-> 0, kind |-> "none", threw |-> FALSE,
           ret |-> 0, g0 |-> 0, o |-> EmptyPartial, asked |-> EmptyPartial,
           res |-> NoRes]

Init ==
    /\ gen \in GenStates
    /\ builders = [i \in Slots |-> NoBuilder]
    /\ last = NoCall
    /\ run = NoRun
    /\ prev = NoRun
    /\ test = NoTest
    /\ refs = NoRefs
    /\ fx = NoFx
    /\ penv = NoEnv
    /\ rt = NoRetry
    /\ net = NoNet
    /\ gs = NoSetup
    /\ hh = NoHeadings

UserActions(i) ==
    \/ \E v \in EmailValues : withEmail(i, v)
    \/ \E v \in PasswordValues : withPassword(i, v)
    \/ \E v \in FirstNameValues : withFirstName(i, v)
    \/ \E v \in LastNameValues : withLastName(i, v)
    \/ \E v \in PhoneValues : withPhone(i, v)
    \/ UserBuild(i)
    \/ UserReset(i)

AddressActions(i) ==
    \/ \E v \in StreetValues : withStreet(i, v)
    \/ \E v \in CityValues : withCity(i, v)
    \/ \E v \in StateValues : withState(i, v)
    \/ \E v \in ZipCodeValues : withZipCode(i, v)
    \/ \E v \in CountryValues : withCountry(i, v)
    \/ AddressBuild(i)
    \/ AddressBuildUS(i)
    \/ AddressReset(i)

ProductActions(i) ==
    \/ \E v \in NameValues : withName(i, v)
    \/ \E v \in DescriptionValues : withDescription(i, v)
    \/ \E v \in PriceValues : withPrice(i, v)
    \/ \E v \in SkuValues : withSku(i, v)
    \/ \E v \in CategoryValues : withCategory(i, v)
    \/ \E v \in BOOLEAN : withStockStatus(i, v)
    \/ \E v \in QuantityValues : withQuantity(i, v)
    \/ ProductBuild(i)
    \/ ProductBuildInStock(i)
    \/ ProductBuildOutOfStock(i)
    \/ ProductReset(i)

OrderActions(i) ==
    \/ \E v \in OrderNumberValues : withOrderNumber(i, v)
    \/ \E v \in UserValues : withUser(i, v)
    \/ \E v \in ItemsValues : withItems(i, v)
    \/ \E v \in AddressValues : withShippingAddress(i, v)
    \/ \E v \in AddressValues : withBillingAddress(i, v)
    \/ \E v \in OrderStatuses : withStatus(i, v)
    \/ \E v \in PaymentMethodValues : withPaymentMethod(i, v)
    \/ OrderBuild(i)
    \/ OrderBuildSimple(i)
    \/ OrderReset(i)

Next ==
    \/ \E k \in Kinds : NewBuilder(1, k)
    \/ UserActions(1)
    \/ AddressActions(1)
    \/ ProductActions(1)
    \/ OrderActions(1)

Spec == Init /\ [][Next]_vars

----------------------------------------------------------------------------
(* Two UserBuilder instances alive at once *)

\* two AddressBuilder instances alive at the same time
NextPair ==
    \E i \in Slots :
        \/ NewBuilder(i, "address")
        \/ AddressActions(i)

SpecPair == Init /\ [][NextPair]_vars

NextUsers ==
    \E i \in Slots :
        \/ NewBuilder(i, "user")
        \/ UserActions(i)

SpecUsers == Init /\ [][NextUsers]_vars

----------------------------------------------------------------------------
(* TestDataFactory *)

\* JavaScript truthiness of an override value: "" and 0 are falsy, objects and
\* arrays (the empty array too) are truthy
Truthy(f, v) ==
    IF f \in {"price", "quantity", "total"} THEN v # 0
    ELSE IF f \in {"user", "items", "shippingAddress", "billingAddress"} THEN TRUE
    ELSE IF f = "inStock" THEN v
    ELSE IF f \in {"sku", "orderNumber"} THEN Len(v) > 0
    ELSE v # ""

\* if (overrides?.f) builder.withF(overrides.f)
ApplyIfTruthy(o, ov, f) ==
    IF Has(ov, f) /\ Truthy(f, ov[f]) THEN Assign(o, f, ov[f]) ELSE o

\* if (overrides?.f !== undefined) builder.withF(overrides.f)
ApplyIfDefined(o, ov, f) ==
    IF Has(ov, f) THEN Assign(o, f, ov[f]) ELSE o

createUser_builder(ov) ==
    LET a == ApplyIfTruthy(EmptyPartial, ov, "email")
        b == ApplyIfTruthy(a, ov, "password")
        c == ApplyIfTruthy(b, ov, "firstName")
        d == ApplyIfTruthy(c, ov, "lastName")
    IN  ApplyIfTruthy(d, ov, "phone")

\* an admin builder whose e-mail is left to the generator
createAdminUser_builderNoEmail ==
    Assign(Assign(Assign(EmptyPartial, "password", "AdminPass123!"),
                  "firstName", "Admin"),
           "lastName", "User")

createAdminUser_builder ==
    Assign(Assign(Assign(Assign(EmptyPartial, "email", "admin@example.com"),
                         "password", "AdminPass123!"),
                  "firstName", "Admin"),
           "lastName", "User")

createAddress_builder(ov) ==
    LET a == ApplyIfTruthy(EmptyPartial, ov, "street")
        b == ApplyIfTruthy(a, ov, "city")
        c == ApplyIfTruthy(b, ov, "state")
        d == ApplyIfTruthy(c, ov, "zipCode")
    IN  ApplyIfTruthy(d, ov, "country")

createProduct_builder(ov) ==
    LET a == ApplyIfTruthy(EmptyPartial, ov, "name")
        b == ApplyIfTruthy(a, ov, "price")
        c == ApplyIfTruthy(b, ov, "category")
    IN  ApplyIfDefined(c, ov, "inStock")

createOrder_builder(ov) ==
    LET a == ApplyIfTruthy(EmptyPartial, ov, "user")
        b == ApplyIfTruthy(a, ov, "items")
        c == ApplyIfTruthy(b, ov, "shippingAddress")
    IN  ApplyIfTruthy(c, ov, "status")

\* the override records the test code passes to the factory
Extend(P, f, V) ==
    P \cup {Assign(p, f, v) : p \in {q \in P : Cardinality(DOMAIN q) < MaxOverrides},
                              v \in V}

UserOverrides ==
    Extend(Extend(Extend(Extend(Extend({EmptyPartial},
        "email", EmailValues), "password", PasswordValues),
        "firstName", FirstNameValues), "lastName", LastNameValues),
        "phone", PhoneValues)

AddressOverrides ==
    Extend(Extend(Extend(Extend(Extend({EmptyPartial},
        "street", StreetValues), "city", CityValues \cup {""}),
        "state", StateValues), "zipCode", ZipCodeValues),
        "country", CountryValues)

ProductOverrides ==
    Extend(Extend(Extend(Extend(Extend(Extend(Extend({EmptyPartial},
        "name", NameValues), "description", DescriptionValues),
        "price", PriceValues \cup {0}), "sku", SkuValues),
        "category", CategoryValues), "inStock", BOOLEAN),
        "quantity", QuantityValues)

OrderOverrides ==
    Extend(Extend(Extend(Extend(Extend(Extend(Extend({EmptyPartial},
        "orderNumber", OrderNumberValues), "user", UserValues),
        "items", ItemsValues), "shippingAddress", AddressValues),
        "billingAddress", AddressValues), "status", StatusValues),
        "paymentMethod", PaymentMethodValues)

\* a static factory method: a builder local to the call, overrides applied
\* to it, then the terminal call
Factory(op, kind, ov, o, out) ==
    /\ gen' = out.g
    /\ last' = [op |-> op, slot |-> 0, kind |-> kind, threw |-> FALSE,
                ret |-> 0, g0 |-> gen, o |-> o, asked |-> ov, res |-> out.res]
    /\ UNCHANGED <<builders, run, prev, test, aux>>

createUser(ov) ==
    Factory("createUser", "user", ov, createUser_builder(ov),
            UserBuilder_build(createUser_builder(ov), gen))

createAdminUser ==
    Factory("createAdminUser", "user", EmptyPartial, createAdminUser_builder,
            UserBuilder_build(createAdminUser_builder, gen))

createAddress(ov) ==
    Factory("createAddress", "address", ov, createAddress_builder(ov),
            AddressBuilder_build(createAddress_builder(ov), gen))

createUSAddress ==
    Factory("createUSAddress", "address", EmptyPartial, EmptyPartial,
            AddressBuilder_buildUS(EmptyPartial, gen))

createProduct(ov) ==
    Factory("createProduct", "product", ov, createProduct_builder(ov),
            ProductBuilder_build(createProduct_builder(ov), gen))

createInStockProduct ==
    Factory("createInStockProduct", "product", EmptyPartial,
            Assign(EmptyPartial, "inStock", TRUE),
            ProductBuilder_buildWithStock(EmptyPartial, TRUE, gen))

createOutOfStockProduct ==
    Factory("createOutOfStockProduct", "product", EmptyPartial,
            Assign(EmptyPartial, "inStock", FALSE),
            ProductBuilder_buildWithStock(EmptyPartial, FALSE, gen))

createOrder(ov) ==
    Factory("createOrder", "order", ov, createOrder_builder(ov),
            OrderBuilder_build(createOrder_builder(ov), gen))

createSimpleOrder ==
    Factory("createSimpleOrder", "order", EmptyPartial,
            Assign(EmptyPartial, "items", SimpleItems),
            OrderBuilder_buildSimple(EmptyPartial, gen))

\* Array.from({ length: count }, () => this.createUser()): the callback runs
\* once per index, in index order, each call on the generator state the one
\* before left; o names the singular method and the overrides it is given
RECURSIVE ArrayFrom(_, _, _)
ArrayFrom(count, o, g) ==
    IF count = 0 THEN [res |-> <<>>, g |-> g]
    ELSE LET before == ArrayFrom(count - 1, o, g)
             one == IF o.kind = "user"
                    THEN UserBuilder_build(createUser_builder(o.ov), before.g)
                    ELSE ProductBuilder_build(createProduct_builder(o.ov), before.g)
         IN  [res |-> Append(before.res, one.res), g |-> one.g]

\* the arguments of createProducts: the category is optional
CategoryArguments ==
    {EmptyPartial} \cup {Assign(EmptyPartial, "category", v) : v \in CategoryValues \cup {""}}

\* category ? { category } : undefined
createProducts_overrides(c) ==
    IF Has(c, "category") /\ Truthy("category", c["category"]) THEN c ELSE EmptyPartial

createUsers(count) ==
    Factory("createUsers", "user", [count |-> count], EmptyPartial,
            ArrayFrom(count, [kind |-> "user", ov |-> EmptyPartial], gen))

createProducts(count, c) ==
    Factory("createProducts", "product", [count |-> count, category |-> c],
            createProduct_builder(createProducts_overrides(c)),
            ArrayFrom(count, [kind |-> "product", ov |-> createProducts_overrides(c)], gen))

NextFactory ==
    \/ \E ov \in UserOverrides : createUser(ov)
    \/ createAdminUser
    \/ \E ov \in AddressOverrides : createAddress(ov)
    \/ createUSAddress
    \/ \E ov \in ProductOverrides : createProduct(ov)
    \/ createInStockProduct
    \/ createOutOfStockProduct
    \/ \E ov \in OrderOverrides : createOrder(ov)
    \/ createSimpleOrder
    \/ \E count \in 0..MaxCount : createUsers(count)
    \/ \E count \in 0..MaxCount, c \in CategoryArguments : createProducts(count, c)

SpecFactory == Init /\ [][NextFactory]_vars

----------------------------------------------------------------------------
(* Seeding: setSeed, resetSeed and the builds of a seeded run *)

Closed == IF run.seed # NoSeed THEN run ELSE prev

\* a seeding that mixes the seed into the state the generator had
setSeedKeepsState(s) ==
    /\ gen' = (gen + s) % GenMod
    /\ prev' = Closed
    /\ run' = [seed |-> s, ops |-> <<>>, res |-> <<>>]
    /\ UNCHANGED <<builders, last, test, aux>>

\* setSeed(seed) { faker.seed(seed) }; a new run of the test starts here
setSeed(s) ==
    /\ gen' = SeedState(s)
    /\ prev' = Closed
    /\ run' = [seed |-> s, ops |-> <<>>, res |-> <<>>]
    /\ UNCHANGED <<builders, last, test, aux>>

\* resetSeed() { faker.seed() }: reseeded from a source the run does not fix
resetSeed ==
    /\ gen' \in GenStates
    /\ prev' = Closed
    /\ run' = NoRun
    /\ UNCHANGED <<builders, last, test, aux>>

\* a build that reads the generator and leaves it where it was
BuildFreshNoAdvance(kind) ==
    /\ run.seed # NoSeed => Len(run.ops) < MaxRun
    /\ run' = IF run.seed = NoSeed THEN run
               ELSE [run EXCEPT !.ops = Append(@, kind),
                                !.res = Append(@, FreshBuild(kind, gen).res)]
    /\ UNCHANGED <<gen, builders, last, prev, test, aux>>

\* new XBuilder().build() with no override; a seeded run records what it got
BuildFresh(kind) ==
    /\ run.seed # NoSeed => Len(run.ops) < MaxRun
    /\ gen' = FreshBuild(kind, gen).g
    /\ run' = IF run.seed = NoSeed THEN run
               ELSE [run EXCEPT !.ops = Append(@, kind),
                                !.res = Append(@, FreshBuild(kind, gen).res)]
    /\ UNCHANGED <<builders, last, prev, test, aux>>

NextSeed ==
    \/ \E s \in Seeds : setSeed(s)
    \/ resetSeed
    \/ \E k \in Kinds : BuildFresh(k)

SpecSeed == Init /\ [][NextSeed]_vars

----------------------------------------------------------------------------
(* A seeded test and the calls of other tests on the same generator *)

\* the builders the tests sharing the generator use
SharedKinds == {"user", "address"}

Touched == IF test.seed # NoSeed THEN [test EXCEPT !.dirty = TRUE] ELSE test

\* a seeding by the test that mixes the seed into the generator's state
TestSetSeedKeepsState(s) ==
    /\ gen' = (gen + s) % GenMod
    /\ test' = [seed |-> s, ops |-> <<>>, res |-> <<>>, dirty |-> FALSE]
    /\ UNCHANGED <<builders, last, run, prev, aux>>

\* the test calls setSeed(s)
TestSetSeed(s) ==
    /\ gen' = SeedState(s)
    /\ test' = [seed |-> s, ops |-> <<>>, res |-> <<>>, dirty |-> FALSE]
    /\ UNCHANGED <<builders, last, run, prev, aux>>

\* the test calls new XBuilder().build()
TestBuild(kind) ==
    /\ test.seed # NoSeed
    /\ Len(test.ops) < MaxRun
    /\ gen' = FreshBuild(kind, gen).g
    /\ test' = [test EXCEPT !.ops = Append(@, kind),
                             !.res = Append(@, FreshBuild(kind, gen).res)]
    /\ UNCHANGED <<builders, last, run, prev, aux>>

\* the test's afterEach hook: resetSeed()
TestAfterEach ==
    /\ test.seed # NoSeed
    /\ gen' \in GenStates
    /\ test' = NoTest
    /\ UNCHANGED <<builders, last, run, prev, aux>>

\* another test calls setSeed(s)
OtherSetSeed(s) ==
    /\ gen' = SeedState(s)
    /\ test' = Touched
    /\ UNCHANGED <<builders, last, run, prev, aux>>

\* another test calls new XBuilder().build()
OtherBuild(kind) ==
    /\ gen' = FreshBuild(kind, gen).g
    /\ test' = Touched
    /\ UNCHANGED <<builders, last, run, prev, aux>>

\* another test's afterEach hook: resetSeed()
OtherResetSeed ==
    /\ gen' \in GenStates
    /\ test' = Touched
    /\ UNCHANGED <<builders, last, run, prev, aux>>

NextShared ==
    \/ \E s \in Seeds : TestSetSeed(s)
    \/ \E k \in SharedKinds : TestBuild(k)
    \/ TestAfterEach
    \/ \E s \in Seeds : OtherSetSeed(s)
    \/ \E k \in SharedKinds : OtherBuild(k)
    \/ OtherResetSeed

SpecShared == Init /\ [][NextShared]_vars

----------------------------------------------------------------------------
(* Properties of the builders *)

Required(kind) ==
    CASE kind = "user" -> {"firstName", "lastName", "email", "password"}
      [] kind = "address" -> {"street", "city", "state", "zipCode", "country"}
      [] kind = "product" -> {"name", "description", "price", "sku", "category",
                               "inStock"}
      [] kind = "order" -> {"orderNumber", "user", "items", "shippingAddress",
                             "total", "status", "paymentMethod"}
      [] OTHER -> {}

TextFields == {"firstName", "lastName", "email", "password", "street", "city",
               "state", "zipCode", "country", "name", "description", "category",
               "status", "paymentMethod"}

ListFields == {"sku", "orderNumber", "items"}

\* a generated value is there and is not the empty string / empty list
NonEmptyValue(f, v) ==
    /\ f \in TextFields => v # ""
    /\ f \in ListFields => Len(v) > 0

IsOrderBuild == last.kind = "order" /\ last.op \in {"build", "buildSimple"}

\* C2: build() returns, for every field overridden through a withX mutator,
\* exactly the value of the latest such call, and for every required field
\* that was not overridden a value that is present and not empty.
C2_OverridesWinDefaultsFilled ==
    last.op = "build" =>
        /\ \A f \in DOMAIN last.asked :
              Has(last.res, f) /\ last.res[f] = last.asked[f]
        /\ \A f \in Required(last.kind) \ DOMAIN last.asked :
              Has(last.res, f) /\ NonEmptyValue(f, last.res[f])

C2_Witness ==
    /\ last.op = "build"
    /\ last.kind = "product"
    /\ Has(last.asked, "price") /\ last.asked["price"] = -500
    /\ ~Has(last.asked, "sku")
    /\ Has(last.res, "sku")

RECURSIVE SumTo(_, _)
SumTo(items, n) ==
    IF n = 0 THEN 0 ELSE SumTo(items, n - 1) + items[n].price * items[n].quantity

\* C3: the total of every Order returned by build() or buildSimple() is the sum
\* over the returned items of price * quantity, and no builder call stores a
\* total of its own.
C3_TotalIsSumOfItems ==
    /\ IsOrderBuild => last.res.total = SumTo(last.res.items, Len(last.res.items))
    /\ \A i \in Slots : ~Has(builders[i].o, "total")

C3_Witness ==
    /\ IsOrderBuild
    /\ Has(last.asked, "items")
    /\ Len(last.res.items) = 2
    /\ last.res.total = 1500

\* C4: buildUS() always yields country "United States", whatever overrides
\* were made before it.
C4_BuildUSCountry ==
    last.op = "buildUS" => last.res.country = "United States"

\* C5: on every builder type reset() is available, and a build() that follows
\* a reset() returns what build() on a freshly constructed builder returns
\* from the same generator state.
C5_ResetThenBuildIsFresh ==
    [][(last.op = "reset" /\ last'.op = "build" /\ last'.slot = last.slot)
          => (~last.threw /\ last'.res = FreshBuild(last'.kind, gen).res)]_vars

\* C9: a built User holds the e-mail and password of the overrides of its own
\* builder, or generated non-empty ones; phone is defined exactly when
\* withPhone was called on that builder instance, with that value.
C9_UserPopulatedPhoneOwn ==
    (last.op = "build" /\ last.kind = "user") =>
        /\ Has(last.res, "email") /\ Has(last.res, "password")
        /\ IF Has(last.asked, "email") THEN last.res.email = last.asked["email"]
                                        ELSE last.res.email # ""
        /\ IF Has(last.asked, "password")
              THEN last.res.password = last.asked["password"]
              ELSE last.res.password # ""
        /\ Has(last.res, "phone") <=> Has(last.asked, "phone")
        /\ Has(last.res, "phone") => last.res["phone"] = last.asked["phone"]

C9_Witness ==
    /\ last.op = "build" /\ last.kind = "user" /\ last.slot = 1
    /\ ~Has(last.res, "phone")
    /\ builders[2].kind = "user" /\ Has(builders[2].asked, "phone")
    /\ Has(builders[2].asked, "email") /\ ~Has(last.asked, "email")

QuantitiesPositive(items) == \A n \in 1..Len(items) : items[n].quantity >= 1

\* C10 as stated: every Order of build() or buildSimple() has a non-empty item
\* list whose quantities are all at least 1.
C10_ItemsNonEmptyPositive ==
    IsOrderBuild => (Len(last.res.items) > 0 /\ QuantitiesPositive(last.res.items))

\* C10 amended: an Order built without items supplied through withItems, and
\* every Order of buildSimple(), has a non-empty item list with quantities at
\* least 1; items supplied through withItems are returned as supplied.
C10_DefaultItemsPositive ==
    IsOrderBuild =>
        /\ (last.op = "buildSimple" \/ ~Has(last.asked, "items"))
              => (Len(last.res.items) > 0 /\ QuantitiesPositive(last.res.items))
        /\ Has(last.asked, "items") => last.res.items = last.asked["items"]

C10_Witness ==
    /\ last.op = "build" /\ last.kind = "order"
    /\ ~Has(last.asked, "items")
    /\ Len(last.res.items) = 1
    /\ last.res.items[1].quantity = 1

----------------------------------------------------------------------------
(* Properties of the factory *)

OverrideFactories == {"createUser", "createAddress", "createProduct", "createOrder"}

\* C7: every field present in the overrides record of createUser /
\* createAddress / createProduct / createOrder has exactly the overriding
\* value in the result, and a field absent from it is left to the builder
\* default.
C7_FactoryOverridesApplied ==
    last.op \in OverrideFactories =>
        /\ \A f \in DOMAIN last.asked :
              Has(last.res, f) /\ last.res[f] = last.asked[f]
        /\ \A f \in Required(last.kind) \ DOMAIN last.asked :
              Has(last.res, f) /\ NonEmptyValue(f, last.res[f])
        /\ \A f \in DOMAIN last.res \ Required(last.kind) : Has(last.asked, f)

----------------------------------------------------------------------------
(* Properties of seeding *)

Min(a, b) == IF a < b THEN a ELSE b

\* C1: two runs that start with setSeed of the same seed and make the same
\* sequence of no-override builds obtain, position by position, equal entities.
C1_SameSeedSameEntities ==
    (prev.seed # NoSeed /\ run.seed = prev.seed) =>
        \A n \in 1..Min(Len(run.ops), Len(prev.ops)) :
            SubSeq(run.ops, 1, n) = SubSeq(prev.ops, 1, n)
                => run.res[n] = prev.res[n]

C1_Witness ==
    /\ prev.seed # NoSeed /\ run.seed = prev.seed
    /\ Len(run.ops) = 2 /\ run.ops = prev.ops
    /\ run.ops[1] = run.ops[2]
    /\ run.res = prev.res
    /\ run.res[1] # run.res[2]

TwoUsersBuilt ==
    /\ run.seed # NoSeed
    /\ Len(run.ops) >= 2
    /\ run.ops[1] = "user" /\ run.ops[2] = "user"

RECURSIVE Replay(_, _)
Replay(g, ops) ==
    IF ops = <<>> THEN <<>>
    ELSE <<FreshBuild(Head(ops), g).res>> \o Replay(FreshBuild(Head(ops), g).g, Tail(ops))

\* C6: a test whose setSeed(s) and builds were not interleaved with another
\* test's setSeed, resetSeed or build obtains the values of its isolated
\* sequential run; with such a call in between it can obtain other values.
C6_IsolatedUnlessInterleaved ==
    (test.seed # NoSeed /\ ~test.dirty) =>
        test.res = Replay(SeedState(test.seed), test.ops)

C6_Witness ==
    /\ test.seed # NoSeed /\ test.dirty
    /\ Len(test.ops) = MaxRun
    /\ test.res # Replay(SeedState(test.seed), test.ops)

----------------------------------------------------------------------------
(* One OrderBuilder and the orders it returned, as object references:
   refs.arrays are the item arrays allocated so far, refs.partials the objects
   assigned to this.order with items held as an index into refs.arrays,
   refs.order the index of the current this.order, refs.entities the returned
   orders with items held as an index into refs.arrays, refs.snaps the value of
   each order at the moment it was returned *)

\* the value of partial p: every reference followed
Deref(r, p) ==
    [f \in DOMAIN p |-> IF f = "items" THEN r.arrays[p[f]] ELSE p[f]]

\* the value of returned order e: every reference followed
EntityValue(r, e) == [e EXCEPT !.items = r.arrays[e.items]]

\* this.order.status = status
StoreStatus(r, v) == [r EXCEPT !.partials[r.order] = Assign(@, "status", v)]

\* a store that writes the new items into the array this.order.items refers to
StoreItemsInPlace(r, v) ==
    IF Has(r.partials[r.order], "items")
    THEN [r EXCEPT !.arrays[r.partials[r.order]["items"]] = v]
    ELSE [r EXCEPT !.arrays = Append(@, v),
                   !.partials[r.order] = Assign(@, "items", Len(r.arrays) + 1)]

\* this.order.items = items, where items is an array the caller just created
StoreItems(r, v) ==
    [r EXCEPT !.arrays = Append(@, v),
              !.partials[r.order] = Assign(@, "items", Len(r.arrays) + 1)]

\* build(): const items = this.order.items ?? [...]; return { ..., items, ... }
\* the returned object is new, its items is the array this.order.items refers
\* to when there is one and a new array otherwise
ReturnOrder(r, g) ==
    LET p == r.partials[r.order]
        out == OrderBuilder_build(Deref(r, p), g)
        shared == Has(p, "items")
        at == IF shared THEN p["items"] ELSE Len(r.arrays) + 1
    IN  [r |-> [r EXCEPT !.arrays = IF shared THEN @ ELSE Append(@, out.res.items),
                         !.entities = Append(@, [out.res EXCEPT !.items = at]),
                         !.snaps = Append(@, out.res)],
         g |-> out.g]

RefStep(op, r, g) ==
    /\ refs' = [r EXCEPT !.op = op, !.before = Deref(refs, refs.partials[refs.order])]
    /\ gen' = g
    /\ UNCHANGED <<builders, last, run, prev, test, fx, penv, rt, net, gs, hh>>

RefWithStatus(v) == RefStep("with", StoreStatus(refs, v), gen)

RefWithItems(v) ==
    /\ Len(refs.arrays) < MaxCells
    /\ RefStep("with", StoreItems(refs, v), gen)

RefBuild ==
    /\ Len(refs.entities) < MaxCells
    /\ Has(refs.partials[refs.order], "items") \/ Len(refs.arrays) < MaxCells
    /\ LET out == ReturnOrder(refs, gen) IN RefStep("build", out.r, out.g)

\* buildSimple(): return this.withItems([{ ... }]).build()
RefBuildSimple ==
    /\ Len(refs.entities) < MaxCells
    /\ Len(refs.arrays) < MaxCells
    /\ LET out == ReturnOrder(StoreItems(refs, SimpleItems), gen)
       IN  RefStep("buildSimple", out.r, out.g)

\* reset(): this.order = {}
RefReset ==
    /\ Len(refs.partials) < MaxCells
    /\ RefStep("reset", [refs EXCEPT !.partials = Append(@, EmptyPartial),
                                     !.order = Len(refs.partials) + 1], gen)

\* the arrays the caller passes to withItems
RefItemsValues == {v \in ItemsValues : Len(v) > 0}

NextRefs ==
    \/ \E v \in StatusValues : RefWithStatus(v)
    \/ \E v \in RefItemsValues : RefWithItems(v)
    \/ RefBuild
    \/ RefBuildSimple
    \/ RefReset

\* the builder is created in a process whose generator was just seeded
InitRefs == Init /\ gen = SeedState(0)

SpecRefs == InitRefs /\ [][NextRefs]_vars

\* C15: once an order is returned no later withX, reset or build on the builder
\* that produced it changes any of its fields, and build() leaves the overrides
\* the builder has accumulated as they were, so a field that was set has the
\* same value in every build.
C15_BuiltEntitiesUnchanged ==
    /\ \A k \in 1..Len(refs.entities) :
            EntityValue(refs, refs.entities[k]) = refs.snaps[k]
    /\ refs.op = "build" =>
            /\ Deref(refs, refs.partials[refs.order]) = refs.before
            /\ \A f \in DOMAIN refs.before :
                    refs.snaps[Len(refs.snaps)][f] = refs.before[f]

\* an order was returned sharing the builder's items array, and a later
\* withItems gave the builder other items
C15_Witness ==
    /\ Len(refs.entities) >= 1
    /\ refs.op = "with"
    /\ Has(refs.before, "items")
    /\ refs.before["items"] = refs.snaps[1].items
    /\ Deref(refs, refs.partials[refs.order])["items"] # refs.snaps[1].items

----------------------------------------------------------------------------
(* Properties of products *)

IsProductBuild ==
    last.kind = "product" /\ last.op \in {"build", "buildInStock", "buildOutOfStock"}

UpperAlnum ==
    {"A", "B", "C", "D", "E", "F", "G", "H", "I", "J", "K", "L", "M", "N", "O", "P",
     "Q", "R", "S", "T", "U", "V", "W", "X", "Y", "Z",
     "0", "1", "2", "3", "4", "5", "6", "7", "8", "9"}

IsUpperAlnumToken(s) == Len(s) > 0 /\ \A n \in 1..Len(s) : s[n] \in UpperAlnum

\* C11 as stated: every Product of build / buildInStock / buildOutOfStock has
\* price > 0 and a sku that is an uppercase alphanumeric token.
C11_PricePositiveSkuUpper ==
    IsProductBuild => (last.res.price > 0 /\ IsUpperAlnumToken(last.res.sku))

\* C11 amended: a price that was not overridden is positive and a sku that was
\* not overridden is an uppercase alphanumeric token; a price or sku given
\* through withPrice / withSku is returned as given.
C11_DefaultPricePositiveSkuUpper ==
    IsProductBuild =>
        /\ IF Has(last.asked, "price") THEN last.res.price = last.asked["price"]
                                        ELSE last.res.price > 0
        /\ IF Has(last.asked, "sku") THEN last.res.sku = last.asked["sku"]
                                      ELSE IsUpperAlnumToken(last.res.sku)

C11_Witness ==
    /\ IsProductBuild
    /\ ~Has(last.asked, "price") /\ ~Has(last.asked, "sku")
    /\ Len(last.res.sku) = 10
    /\ \E n \in 1..10 : last.res.sku[n] = "Q"

\* C12: buildSimple() returns exactly one item of price 29.99 and quantity 1,
\* and total 29.99, whatever the generator state and whatever items the
\* builder held before the call.
C12_BuildSimpleFixedItem ==
    last.op = "buildSimple" =>
        /\ Len(last.res.items) = 1
        /\ last.res.items[1].price = 2999
        /\ last.res.items[1].quantity = 1
        /\ last.res.total = 2999

C12_Witness ==
    /\ last.op = "buildSimple"
    /\ Has(last.o, "items") /\ Len(last.o["items"]) = 2
    /\ last.g0 # SeedState(0)
    /\ Len(last.res.items) = 1

\* C14: buildInStock() / buildOutOfStock() return what withStockStatus(true) /
\* withStockStatus(false) followed by build() returns: inStock is true / false
\* whatever withStockStatus was called with before, and every other field is
\* the one build() resolves from the same overrides and generator state.
C14_StockBuildsAreSugar ==
    (last.kind = "product" /\ last.op \in {"buildInStock", "buildOutOfStock"}) =>
        LET b == (last.op = "buildInStock")
            out == ProductBuilder_build(Assign(last.o, "inStock", b), last.g0)
        IN  /\ last.res = out.res
            /\ gen = out.g
            /\ last.res.inStock = b
            /\ \A f \in DOMAIN last.o \ {"inStock"} : last.res[f] = last.o[f]

C14_Witness ==
    /\ last.op = "buildInStock"
    /\ Has(last.o, "inStock") /\ last.o["inStock"] = FALSE
    /\ Has(last.o, "name")
    /\ last.res.inStock = TRUE

----------------------------------------------------------------------------
(* Properties of the factory: fixed entities *)

\* C13: createAdminUser() returns e-mail 'admin@example.com', password
\* 'AdminPass123!', first name 'Admin', last name 'User' and no phone, whatever
\* the generator state and whatever factory calls came before.
C13_AdminUserFixed ==
    last.op = "createAdminUser" =>
        /\ last.res.email = "admin@example.com"
        /\ last.res.password = "AdminPass123!"
        /\ last.res.firstName = "Admin"
        /\ last.res.lastName = "User"
        /\ ~Has(last.res, "phone")

C13_Witness ==
    /\ last.op = "createAdminUser"
    /\ last.g0 # SeedState(0)
    /\ last.res.email = "admin@example.com"

\* C19: createUsers(n) returns exactly n users and createProducts(n, category)
\* exactly n products, and when a category argument is given every returned
\* product has that category.
C19_BulkCountAndCategory ==
    /\ last.op \in {"createUsers", "createProducts"} =>
            Len(last.res) = last.asked.count
    /\ (last.op = "createProducts" /\ Has(last.asked.category, "category")) =>
            \A k \in 1..Len(last.res) :
                last.res[k].category = last.asked.category["category"]

----------------------------------------------------------------------------
(* Properties of the fluent interface *)

\* C16: every withX mutator of every builder, and reset(), returns the builder
\* instance it was called on.
C16_MutatorsReturnSameInstance ==
    last.op \in {"with", "reset"} => last.ret = last.slot

\* C17: no builder or factory operation raises an error.
C17_NoOperationThrows == ~last.threw

\* C18: reset() clears the overrides of the builder it is called on and of no
\* other builder, and leaves the state of the process-wide generator as it was.
C18_ResetLeavesGenerator ==
    [][last'.op = "reset" =>
          /\ gen' = gen
          /\ \A j \in Slots \ {last'.slot} : builders'[j] = builders[j]]_vars

C18_Witness ==
    /\ last.op = "reset" /\ last.slot = 1 /\ ~last.threw
    /\ builders[1].o = EmptyPartial
    /\ Has(builders[2].o, "city")
    /\ gen = last.g0 /\ gen # SeedState(0)

----------------------------------------------------------------------------
(* A test run under the extended fixtures: fx.consoles and fx.requests count
   the console messages and network requests of the page during the test,
   fx.status is testInfo.status when the test body ended, fx.attached the names
   of the attachments of the test report *)

TestStatuses == {"passed", "failed", "timedOut", "skipped", "interrupted"}

\* captureErrorScreenshot: page.screenshot({ fullPage: true }) and
\* testInfo.attach('error-screenshot'); an exception of either is caught and
\* logged, ok tells whether both completed
captureErrorScreenshot(ok) == IF ok THEN {"error-screenshot"} ELSE {}

\* captureErrorHtml: page.content() and testInfo.attach('error-html'); an
\* exception is caught and logged
captureErrorHtml(ok) == IF ok THEN {"error-html"} ELSE {}

\* captureFullErrorContext:
\* Promise.all([captureErrorScreenshot(...), captureErrorHtml(...)])
captureFullErrorContext(attached, shotOk, htmlOk) ==
    attached \cup captureErrorScreenshot(shotOk) \cup captureErrorHtml(htmlOk)

FxStep(f) ==
    /\ fx' = f
    /\ UNCHANGED <<data, refs, penv, rt, net, gs, hh>>

\* a test that imports test from the extended fixtures starts
TestStart ==
    /\ fx.pc \in {"idle", "done"}
    /\ FxStep([NoFx EXCEPT !.pc = "running"])

\* the page writes to its console: the fixtures register no listener
PageConsole ==
    /\ fx.pc = "running" /\ fx.consoles < MaxPageEvents
    /\ FxStep([fx EXCEPT !.consoles = @ + 1])

\* the page makes a network request: the fixtures register no listener
PageRequest ==
    /\ fx.pc = "running" /\ fx.requests < MaxPageEvents
    /\ FxStep([fx EXCEPT !.requests = @ + 1])

\* the test body ends and the runner sets testInfo.status
TestEnd(status) ==
    /\ fx.pc = "running"
    /\ FxStep([fx EXCEPT !.pc = "hook", !.status = status])

\* test.afterEach: if (testInfo.status === 'failed') captureFullErrorContext
AfterEach(shotOk, htmlOk) ==
    /\ fx.pc = "hook"
    /\ FxStep([fx EXCEPT !.pc = "done",
                         !.attached = IF fx.status = "failed"
                                      THEN captureFullErrorContext(@, shotOk, htmlOk)
                                      ELSE @])

NextFixtures ==
    \/ TestStart
    \/ PageConsole
    \/ PageRequest
    \/ \E status \in TestStatuses : TestEnd(status)
    \/ \E shotOk \in BOOLEAN, htmlOk \in BOOLEAN : AfterEach(shotOk, htmlOk)

InitFixtures == Init /\ gen = SeedState(0)

SpecFixtures == InitFixtures /\ [][NextFixtures]_vars

\* C20: when a test that uses the extended fixtures has failed, the report
\* holds all four artefacts: the full-page screenshot, the page HTML, the
\* console logs and the network requests/responses.
C20_FailureCapturesFourArtefacts ==
    (fx.pc = "done" /\ fx.status = "failed") =>
        {"error-screenshot", "error-html", "console-logs", "network-logs"}
            \subseteq fx.attached

----------------------------------------------------------------------------
(* Environment configuration: penv.vars is process.env restricted to ENV and
   BASE_URL (a variable that is not set is absent), penv.out the value the
   latest getBaseUrl call returned. ENV is a sequence of characters. *)

LowerMap ==
    [c \in {"A", "C", "D", "E", "G", "L", "O", "P", "R", "S", "T"} |->
        CASE c = "A" -> "a" [] c = "C" -> "c" [] c = "D" -> "d" [] c = "E" -> "e"
          [] c = "G" -> "g" [] c = "L" -> "l" [] c = "O" -> "o" [] c = "P" -> "p"
          [] c = "R" -> "r" [] c = "S" -> "s" [] c = "T" -> "t"]

\* String.prototype.toLowerCase
toLowerCase(s) ==
    [i \in 1..Len(s) |-> IF s[i] \in DOMAIN LowerMap THEN LowerMap[s[i]] ELSE s[i]]

env_local == <<"l", "o", "c", "a", "l">>
env_test == <<"t", "e", "s", "t">>
env_stage == <<"s", "t", "a", "g", "e">>
env_prod == <<"p", "r", "o", "d">>

validEnvs == {env_local, env_test, env_stage, env_prod}

\* process.env.ENV?.toLowerCase() || 'local', then validEnvs.includes(env)
getEnvironment(e) ==
    LET env == IF Has(e, "ENV") /\ Len(toLowerCase(e["ENV"])) > 0
               THEN toLowerCase(e["ENV"]) ELSE env_local
    IN  IF env \in validEnvs THEN env ELSE env_local

urls(env) ==
    CASE env = env_local -> "http://localhost:3000"
      [] env = env_test -> "https://test.example.com"
      [] env = env_stage -> "https://stage.example.com"
      [] env = env_prod -> "https://example.com"

\* process.env.BASE_URL || urls[env]
getBaseUrl(e) ==
    IF Has(e, "BASE_URL") /\ e["BASE_URL"] # "" THEN e["BASE_URL"]
    ELSE urls(getEnvironment(e))

\* values given to ENV: the four names in lower case, upper case and
\* capitalised, the empty string and names that are none of the four
EnvNameValues ==
    { env_local, env_test, env_stage, env_prod,
      <<"L", "O", "C", "A", "L">>, <<"T", "E", "S", "T">>,
      <<"S", "T", "A", "G", "E">>, <<"P", "R", "O", "D">>,
      <<"L", "o", "c", "a", "l">>, <<"T", "e", "s", "t">>,
      <<"S", "t", "a", "g", "e">>, <<"P", "r", "o", "d">>,
      <<>>, <<"q", "a">>, <<"t", "e", "s", "t", " ">>,
      <<"p", "r", "o", "d", "u", "c", "t", "i", "o", "n">> }

BaseUrlValues == {"", "http://my-custom-url.com"}

EnvStep(e, op, out) ==
    /\ penv' = [vars |-> e, op |-> op, out |-> out]
    /\ UNCHANGED <<data, refs, fx, rt, net, gs, hh>>

\* ENV=<v> npm test
SetENV(v) == EnvStep(Assign(penv.vars, "ENV", v), "set", "")

\* BASE_URL=<v> npm test
SetBASE_URL(v) == EnvStep(Assign(penv.vars, "BASE_URL", v), "set", "")

\* the variable is removed from the environment
UnsetVar(name) ==
    /\ Has(penv.vars, name)
    /\ EnvStep([f \in DOMAIN penv.vars \ {name} |-> penv.vars[f]], "unset", "")

GetBaseUrl == EnvStep(penv.vars, "getBaseUrl", getBaseUrl(penv.vars))

NextEnv ==
    \/ \E v \in EnvNameValues : SetENV(v)
    \/ \E v \in BaseUrlValues : SetBASE_URL(v)
    \/ \E name \in {"ENV", "BASE_URL"} : UnsetVar(name)
    \/ GetBaseUrl

InitEnv == Init /\ gen = SeedState(0)

SpecEnv == InitEnv /\ [][NextEnv]_vars

CapitalOf(c) ==
    CASE c = "a" -> "A" [] c = "c" -> "C" [] c = "d" -> "D" [] c = "e" -> "E"
      [] c = "g" -> "G" [] c = "l" -> "L" [] c = "o" -> "O" [] c = "p" -> "P"
      [] c = "r" -> "R" [] c = "s" -> "S" [] c = "t" -> "T"

\* s spells the lower-case name n, whatever the case of each of its letters
SpellsName(s, n) ==
    /\ Len(s) = Len(n)
    /\ \A i \in 1..Len(n) : s[i] = n[i] \/ s[i] = CapitalOf(n[i])

\* C21: getBaseUrl() returns BASE_URL when it is set and not empty; otherwise
\* the URL of the one of local, test, stage, prod that ENV spells whatever the
\* case of its letters, and the local URL when ENV is not set, is empty or
\* spells none of the four.
C21_BaseUrlSelection ==
    penv.op = "getBaseUrl" =>
        IF Has(penv.vars, "BASE_URL") /\ penv.vars["BASE_URL"] # ""
        THEN penv.out = penv.vars["BASE_URL"]
        ELSE IF Has(penv.vars, "ENV") /\ \E n \in validEnvs : SpellsName(penv.vars["ENV"], n)
        THEN \E n \in validEnvs : SpellsName(penv.vars["ENV"], n) /\ penv.out = urls(n)
        ELSE penv.out = "http://localhost:3000"

C21_Witness ==
    /\ penv.op = "getBaseUrl"
    /\ Has(penv.vars, "ENV") /\ penv.vars["ENV"] = <<"P", "r", "o", "d">>
    /\ Has(penv.vars, "BASE_URL") /\ penv.vars["BASE_URL"] = ""
    /\ penv.out = "https://example.com"

----------------------------------------------------------------------------
(* retry(fn, { maxAttempts, delayMs, onRetry }): rt.trace lists what the call
   did so far: "ok" and "fail" are invocations of fn that resolved and
   rejected, "onRetry" and "warn" the notification after a failure, "delay"
   the setTimeout(resolve, delayMs) that follows it *)

\* what fn resolves with and what it rejects with: a rejection value is an
\* Error or any other value
Results == {"r1", "r2"}
Thrown == [isError : BOOLEAN, msg : {"e1", "e2"}]

NoOutcome == [kind |-> "none", v |-> ""]

\* error instanceof Error ? error : new Error(String(error))
AsError(e) == [isError |-> TRUE, msg |-> e.msg]

\* a loop that notifies and waits after the final attempt too
MoreAttemptsInclusive(attempt, maxAttempts) == attempt <= maxAttempts

\* if (attempt < maxAttempts)
MoreAttempts(attempt, maxAttempts) == attempt < maxAttempts

\* throw lastError || new Error('Retry failed')
ThrowLast(r) ==
    [r EXCEPT !.pc = "done",
              !.outcome = [kind |-> "threw",
                           v |-> IF r.failed THEN r.lastError
                                 ELSE [isError |-> TRUE, msg |-> "Retry failed"]]]

RetryStep(r) ==
    /\ rt' = r
    /\ UNCHANGED <<data, refs, fx, penv, net, gs, hh>>

\* retry(fn, options) is called: the loop is entered with attempt = 1
RetryCall(maxAttempts, hasOnRetry) ==
    /\ rt.pc \in {"idle", "done"}
    /\ LET r == [fn |-> "retry", pc |-> "loop", maxAttempts |-> maxAttempts,
                 hasOnRetry |-> hasOnRetry, attempt |-> 1, trace |-> <<>>,
                 failed |-> FALSE, lastError |-> AsError([isError |-> TRUE, msg |-> "e1"]),
                 lastThrown |-> [isError |-> TRUE, msg |-> "e1"],
                 outcome |-> NoOutcome]
       IN  RetryStep(IF maxAttempts >= 1 THEN r ELSE ThrowLast(r))

\* return await fn(): fn resolves with v
RetryFnResolves(v) ==
    /\ rt.pc = "loop" /\ rt.fn = "retry"
    /\ RetryStep([rt EXCEPT !.pc = "done", !.trace = Append(@, "ok"),
                            !.outcome = [kind |-> "returned", v |-> v]])

\* fn rejects with e: the catch block, up to the await of the delay or, after
\* the final attempt, to the throw that follows the loop
RetryFnRejects(e) ==
    /\ rt.pc = "loop" /\ rt.fn = "retry"
    /\ LET r == [rt EXCEPT !.failed = TRUE, !.lastError = AsError(e),
                           !.lastThrown = e, !.trace = Append(@, "fail")]
       IN  IF MoreAttempts(rt.attempt, rt.maxAttempts)
           THEN RetryStep([r EXCEPT !.pc = "sleeping",
                                    !.trace = @ \o <<IF rt.hasOnRetry THEN "onRetry"
                                                                      ELSE "warn",
                                                     "delay">>])
           ELSE RetryStep(ThrowLast([r EXCEPT !.attempt = @ + 1]))

\* the delay elapses: attempt++
RetryWake ==
    /\ rt.pc = "sleeping" /\ rt.fn = "retry"
    /\ RetryStep([rt EXCEPT !.pc = "loop", !.attempt = @ + 1])

NextRetry ==
    \/ \E n \in 0..MaxAttempts, h \in BOOLEAN : RetryCall(n, h)
    \/ \E v \in Results : RetryFnResolves(v)
    \/ \E e \in Thrown : RetryFnRejects(e)
    \/ RetryWake

InitRetry == Init /\ gen = SeedState(0)

SpecRetry == InitRetry /\ [][NextRetry]_vars

CountOf(trace, evs) == Cardinality({i \in 1..Len(trace) : trace[i] \in evs})

----------------------------------------------------------------------------
(* retryWithBackoff(fn, { maxAttempts, initialDelayMs, maxDelayMs, multiplier }):
   rt.waits lists the delays waited between attempts, rt.delay is the local
   variable delay *)

\* Math.min
Math_min(a, b) == IF a < b THEN a ELSE b

\* option values, in units of one second
InitialDelayValues == {1, 2, 5}
MaxDelayValues == {3, 4}
MultiplierValues == {1, 2, 3}

\* retryWithBackoff(fn, options) is called: let delay = initialDelayMs
BackoffCall(maxAttempts, initialDelayMs, maxDelayMs, multiplier) ==
    /\ rt.pc \in {"idle", "done"}
    /\ RetryStep([fn |-> "backoff", pc |-> "loop", maxAttempts |-> maxAttempts,
                  initialDelayMs |-> initialDelayMs, maxDelayMs |-> maxDelayMs,
                  multiplier |-> multiplier, attempt |-> 1, delay |-> initialDelayMs,
                  waits |-> <<>>, outcome |-> "none"])

\* return await fn(): fn resolves
BackoffFnResolves ==
    /\ rt.pc = "loop" /\ rt.fn = "backoff"
    /\ RetryStep([rt EXCEPT !.pc = "done", !.outcome = "returned"])

\* fn rejects: setTimeout(resolve, delay) when attempts are left, the throw
\* after the loop otherwise
BackoffFnRejects ==
    /\ rt.pc = "loop" /\ rt.fn = "backoff"
    /\ IF MoreAttempts(rt.attempt, rt.maxAttempts)
       THEN RetryStep([rt EXCEPT !.pc = "sleeping", !.waits = Append(@, rt.delay)])
       ELSE RetryStep([rt EXCEPT !.pc = "done", !.outcome = "threw"])

\* the delay elapses: delay = Math.min(delay * multiplier, maxDelayMs); attempt++
BackoffWake ==
    /\ rt.pc = "sleeping" /\ rt.fn = "backoff"
    /\ RetryStep([rt EXCEPT !.pc = "loop", !.attempt = @ + 1,
                            !.delay = Math_min(@ * rt.multiplier, rt.maxDelayMs)])

NextBackoff ==
    \/ \E n \in 1..(MaxAttempts + 1), i \in InitialDelayValues,
          m \in MaxDelayValues, k \in MultiplierValues : BackoffCall(n, i, m, k)
    \/ BackoffFnResolves
    \/ BackoffFnRejects
    \/ BackoffWake

SpecBackoff == InitRetry /\ [][NextBackoff]_vars

\* C23: every wait between two attempts lasts at most maxDelayMs, and for a
\* multiplier of at least 1 the waits never decrease, the first being
\* initialDelayMs and each next one the one before times the multiplier
\* (capped at maxDelayMs), for every initialDelayMs, maxDelayMs and multiplier.
C23_BackoffWaitsCapped ==
    (rt.pc # "idle" /\ rt.fn = "backoff") =>
        /\ \A i \in 1..Len(rt.waits) : rt.waits[i] <= rt.maxDelayMs
        /\ rt.multiplier >= 1 =>
                /\ Len(rt.waits) >= 1 => rt.waits[1] = rt.initialDelayMs
                /\ \A i \in 1..(Len(rt.waits) - 1) :
                        /\ rt.waits[i] <= rt.waits[i + 1]
                        /\ rt.waits[i + 1] =
                               Math_min(rt.waits[i] * rt.multiplier, rt.maxDelayMs)

----------------------------------------------------------------------------
(* retryUntil(fn, condition, { timeoutMs, intervalMs }): rt.elapsed is
   Date.now() - startTime, rt.seen lists the results fn resolved with,
   rt.calls counts the invocations of fn *)

\* the caller's condition
condition(r) == r = "r2"

\* a poll that returns whatever fn resolved with
ReturnsResultAlways(r) == TRUE

\* if (condition(result)) return result
ReturnsResult(r) == condition(r)

NotMet == [isError |-> TRUE, msg |-> "Condition not met"]

\* option values and the time a call of fn or a timer may take, in units of
\* one interval
TimeoutValues == {-1, 0, 2, 3}
IntervalValues == {1, 2}
Durations == {0, 1}

\* while (Date.now() - startTime < timeoutMs) { const result = await fn(); ...
\* and, when the loop ends, throw new Error('Condition not met within ...')
UntilCheck(r) ==
    IF r.elapsed < r.timeoutMs
    THEN [r EXCEPT !.pc = "calling", !.calls = @ + 1]
    ELSE [r EXCEPT !.pc = "done", !.outcome = [kind |-> "threw", v |-> NotMet]]

UntilCall(timeoutMs, intervalMs) ==
    /\ rt.pc \in {"idle", "done"}
    /\ RetryStep(UntilCheck([fn |-> "until", pc |-> "check", timeoutMs |-> timeoutMs,
                             intervalMs |-> intervalMs, elapsed |-> 0, calls |-> 0,
                             seen |-> <<>>, fnThrew |-> FALSE,
                             thrown |-> NotMet, outcome |-> NoOutcome]))

\* fn resolves with v after d: the condition is tested, and the result is
\* returned or the interval timer started
UntilFnResolves(v, d) ==
    /\ rt.pc = "calling" /\ rt.fn = "until"
    /\ LET r == [rt EXCEPT !.elapsed = @ + d, !.seen = Append(@, v)]
       IN  IF ReturnsResult(v)
           THEN RetryStep([r EXCEPT !.pc = "done",
                                    !.outcome = [kind |-> "returned", v |-> v]])
           ELSE RetryStep([r EXCEPT !.pc = "sleeping"])

\* fn rejects with e after d: nothing catches it
UntilFnRejects(e, d) ==
    /\ rt.pc = "calling" /\ rt.fn = "until"
    /\ RetryStep([rt EXCEPT !.elapsed = @ + d, !.pc = "done", !.fnThrew = TRUE,
                            !.thrown = e, !.outcome = [kind |-> "threw", v |-> e]])

\* the interval timer fires, d late, and the loop condition is tested again
UntilWake(d) ==
    /\ rt.pc = "sleeping" /\ rt.fn = "until"
    /\ RetryStep(UntilCheck([rt EXCEPT !.elapsed = @ + rt.intervalMs + d]))

NextUntil ==
    \/ \E t \in TimeoutValues, i \in IntervalValues : UntilCall(t, i)
    \/ \E v \in Results, d \in Durations : UntilFnResolves(v, d)
    \/ \E e \in Thrown, d \in Durations : UntilFnRejects(e, d)
    \/ \E d \in Durations : UntilWake(d)

SpecUntil == InitRetry /\ [][NextUntil]_vars

\* C24: retryUntil returns only a result of fn that satisfies the condition,
\* and the first such result; when the time budget runs out with no satisfying
\* result (with timeoutMs <= 0 fn is never called) it throws 'Condition not
\* met'; an exception of fn is thrown on at once, with no further poll.
C24_ReturnsFirstSatisfying ==
    (rt.pc # "idle" /\ rt.fn = "until") =>
        LET n == Len(rt.seen) IN
        /\ \A i \in 1..(n - 1) : ~condition(rt.seen[i])
        /\ rt.outcome.kind = "returned" =>
                (n >= 1 /\ rt.outcome.v = rt.seen[n] /\ condition(rt.outcome.v))
        /\ (n >= 1 /\ condition(rt.seen[n])) =>
                (rt.pc = "done" /\ rt.outcome.kind = "returned")
        /\ (rt.outcome.kind = "threw" /\ ~rt.fnThrew) =>
                /\ rt.outcome.v = NotMet
                /\ rt.elapsed >= rt.timeoutMs
                /\ \A i \in 1..n : ~condition(rt.seen[i])
        /\ rt.timeoutMs <= 0 =>
                (rt.calls = 0 /\ rt.pc = "done" /\ rt.outcome.kind = "threw")
        /\ rt.fnThrew =>
                /\ rt.pc = "done" /\ rt.outcome = [kind |-> "threw", v |-> rt.thrown]
                /\ rt.calls = n + 1
        /\ rt.pc = "done" => rt.outcome.kind \in {"returned", "threw"}

C24_Witness ==
    /\ rt.pc = "done" /\ rt.fn = "until"
    /\ rt.seen = <<"r1", "r1", "r2">>
    /\ rt.outcome = [kind |-> "returned", v |-> "r2"]

----------------------------------------------------------------------------
(* Request listeners on one page: net.listeners are the owners of the
   listeners that waiters 1 and 2 have registered for the page's 'request'
   event, net.w the pending or settled waiters, net.cap the list that
   captureApiRequests returned, cap.listening telling whether its listener is
   registered. w.emitted counts the requests
   made while the waiter was pending that it waits for, cap.matched the
   matching requests made since the capture began. *)

Waiters == {1, 2}

\* url.includes(urlPattern), on sequences of characters
includes(url, pat) ==
    \E i \in 1..(Len(url) - Len(pat) + 1) : SubSeq(url, i, i + Len(pat) - 1) = pat

UrlValues == {<<"/", "u">>, <<"/", "o">>}
PatternValues == {<<"u">>, <<"o">>, <<"/">>}
CountValues == {1, 2}

NetStep(n) ==
    /\ net' = n
    /\ UNCHANGED <<data, refs, fx, penv, rt, gs, hh>>

\* waitForApiRequest(page, urlPattern): the timer is started and the
\* listener registered
waitForApiRequest(i, pat) ==
    /\ net.w[i].state # "pending"
    /\ NetStep([net EXCEPT !.listeners = @ \cup {i},
                           !.w[i] = [kind |-> "api", state |-> "pending", pattern |-> pat,
                                     count |-> 1, requestCount |-> 0, emitted |-> 0]])

\* waitForNetworkRequests(page, count)
waitForNetworkRequests(i, count) ==
    /\ net.w[i].state # "pending"
    /\ NetStep([net EXCEPT !.listeners = @ \cup {i},
                           !.w[i] = [kind |-> "count", state |-> "pending", pattern |-> <<>>,
                                     count |-> count, requestCount |-> 0, emitted |-> 0]])

\* captureApiRequests(page, urlPattern)
captureApiRequests(pat) ==
    /\ ~net.cap.on
    /\ NetStep([net EXCEPT !.cap = [on |-> TRUE, listening |-> TRUE, pattern |-> pat,
                                    requests |-> <<>>, matched |-> 0]])

\* the request is one waiter w waits for
Awaited(w, url) == w.kind = "count" \/ includes(url, w.pattern)

\* the listener of waiter w runs for a request: w after it
OnRequest(w, url) ==
    LET c == IF w.kind = "count" THEN w.requestCount + 1 ELSE w.requestCount
        done == IF w.kind = "count" THEN c >= w.count ELSE includes(url, w.pattern)
    IN  [w EXCEPT !.requestCount = c,
                  !.state = IF done THEN "resolved" ELSE @]

\* the page makes a request: every listener registered when the event is
\* emitted runs; a waiter that completes calls page.removeAllListeners('request')
Request(url) ==
    /\ net.made < MaxRequests
    /\ LET L == net.listeners
           after == [i \in Waiters |->
                        LET w == IF i \in L THEN OnRequest(net.w[i], url) ELSE net.w[i]
                        IN  [w EXCEPT !.emitted =
                                IF net.w[i].state = "pending" /\ Awaited(net.w[i], url)
                                THEN @ + 1 ELSE @]]
           completed == {i \in Waiters \cap L : after[i].state = "resolved"}
           hit == net.cap.on /\ includes(url, net.cap.pattern)
       IN  NetStep([net EXCEPT
                !.w = after,
                !.cap.requests = IF net.cap.listening /\ hit THEN Append(@, url) ELSE @,
                !.cap.matched = IF hit THEN @ + 1 ELSE @,
                !.cap.listening = IF completed = {} THEN @ ELSE FALSE,
                !.listeners = IF completed = {} THEN @ ELSE {},
                !.made = @ + 1])

\* the timer of a pending waiter fires: page.removeAllListeners('request');
\* reject(new Error('Timeout waiting for ...'))
Timeout(i) ==
    /\ net.w[i].state = "pending"
    /\ NetStep([net EXCEPT !.listeners = {}, !.cap.listening = FALSE,
                           !.w[i].state = "rejected"])

NextNet ==
    \/ \E i \in Waiters, pat \in PatternValues : waitForApiRequest(i, pat)
    \/ \E i \in Waiters, count \in CountValues : waitForNetworkRequests(i, count)
    \/ \E pat \in PatternValues : captureApiRequests(pat)
    \/ \E url \in UrlValues : Request(url)
    \/ \E i \in Waiters : Timeout(i)

InitNet == Init /\ gen = SeedState(0)

SpecNet == InitNet /\ [][NextNet]_vars

\* C25: helpers listening on the same page do not interfere: a waiter resolves
\* once the request it waits for was made while it was pending, and the list
\* of captureApiRequests holds every matching request made since it began,
\* whatever other waiter completed or timed out meanwhile.
C25_ListenersDoNotInterfere ==
    /\ \A i \in Waiters :
            (net.w[i].kind # "none" /\ net.w[i].emitted >= net.w[i].count) =>
                net.w[i].state = "resolved"
    /\ Len(net.cap.requests) = net.cap.matched

----------------------------------------------------------------------------
(* globalSetup(config): gs.pc is the await the run is at, gs.env is process.env
   restricted to TEST_USERNAME and TEST_PASSWORD, gs.baseURL is
   config.projects[0].use.baseURL ("" when undefined), gs.launched and
   gs.closed tell whether chromium.launch() resolved and browser.close() was
   called, gs.caught is the error the catch block rethrows, gs.outcome and
   gs.error how the run ended. Every awaited call may resolve or reject. *)

\* process.env.TEST_USERNAME && process.env.TEST_PASSWORD
getCredentials(e) ==
    /\ Has(e, "TEST_USERNAME") /\ e["TEST_USERNAME"] # ""
    /\ Has(e, "TEST_PASSWORD") /\ e["TEST_PASSWORD"] # ""

CredentialEnvs ==
    Extend(Extend({EmptyPartial}, "TEST_USERNAME", {"", "user@example.com"}),
           "TEST_PASSWORD", {"", "password123"})

SetupStep(g) ==
    /\ gs' = g
    /\ UNCHANGED <<data, refs, fx, penv, rt, net, hh>>

\* an awaited call outside the try block rejects: the run ends with its error
Rejects(g, error) == [g EXCEPT !.pc = "done", !.outcome = "threw", !.error = error]

\* an awaited call inside the try block rejects: catch (error) { ...; throw error }
\* and then the finally block
Catches(g, error) == [g EXCEPT !.pc = "close", !.caught = error]

\* globalSetup(config) is called: chromium.launch() is awaited
globalSetup(e, baseURL) ==
    /\ gs.pc \in {"idle", "done"}
    /\ SetupStep([NoSetup EXCEPT !.pc = "launch", !.env = e, !.baseURL = baseURL])

\* const browser = await chromium.launch()
Launch(ok) ==
    /\ gs.pc = "launch"
    /\ SetupStep(IF ok THEN [gs EXCEPT !.pc = "newContext", !.launched = TRUE]
                 ELSE Rejects(gs, "launch"))

\* const context = await browser.newContext()
NewContext(ok) ==
    /\ gs.pc = "newContext"
    /\ SetupStep(IF ok THEN [gs EXCEPT !.pc = "newPage"] ELSE Rejects(gs, "newContext"))

\* const page = await context.newPage(), then the try block up to its first
\* await: if (creds && baseURL) { ... await loginPage.goto() } else { log }
NewPage(ok) ==
    /\ gs.pc = "newPage"
    /\ SetupStep(IF ~ok THEN Rejects(gs, "newPage")
                 ELSE IF getCredentials(gs.env) /\ gs.baseURL # ""
                 THEN [gs EXCEPT !.pc = "goto"]
                 ELSE [gs EXCEPT !.pc = "close"])

\* await loginPage.goto()
Goto(ok) ==
    /\ gs.pc = "goto"
    /\ SetupStep(IF ok THEN [gs EXCEPT !.pc = "login"] ELSE Catches(gs, "goto"))

\* await loginPage.login(creds.username, creds.password)
Login(ok) ==
    /\ gs.pc = "login"
    /\ SetupStep(IF ok THEN [gs EXCEPT !.pc = "save", !.loggedIn = TRUE]
                 ELSE Catches(gs, "login"))

\* await saveAuthState(context, 'playwright/.auth/user.json')
SaveAuthState(ok) ==
    /\ gs.pc = "save"
    /\ SetupStep(IF ok THEN [gs EXCEPT !.pc = "close", !.saved = TRUE]
                 ELSE Catches(gs, "save"))

\* finally { await browser.close() }: an error of close replaces the one
\* being rethrown
Close(ok) ==
    /\ gs.pc = "close"
    /\ LET g == [gs EXCEPT !.pc = "done", !.closed = TRUE]
       IN  SetupStep(IF ~ok THEN [g EXCEPT !.outcome = "threw", !.error = "close"]
                     ELSE IF gs.caught # ""
                     THEN [g EXCEPT !.outcome = "threw", !.error = gs.caught]
                     ELSE [g EXCEPT !.outcome = "returned"])

NextSetup ==
    \/ \E e \in CredentialEnvs, baseURL \in {"", "http://localhost:3000"} :
            globalSetup(e, baseURL)
    \/ \E ok \in BOOLEAN : Launch(ok)
    \/ \E ok \in BOOLEAN : NewContext(ok)
    \/ \E ok \in BOOLEAN : NewPage(ok)
    \/ \E ok \in BOOLEAN : Goto(ok)
    \/ \E ok \in BOOLEAN : Login(ok)
    \/ \E ok \in BOOLEAN : SaveAuthState(ok)
    \/ \E ok \in BOOLEAN : Close(ok)

InitSetup == Init /\ gen = SeedState(0)

SpecSetup == InitSetup /\ [][NextSetup]_vars

\* C26: globalSetup closes the browser it launched on every path, rethrows an
\* error of the login or of the saving after the close, and saves the auth
\* state only when credentials and a baseURL are present and the login
\* completed.
C26_BrowserAlwaysClosed ==
    /\ (gs.pc = "done" /\ gs.launched) => gs.closed
    /\ (gs.pc = "done" /\ gs.caught # "") =>
            (gs.closed /\ gs.outcome = "threw" /\ gs.error = gs.caught)
    /\ gs.saved => (getCredentials(gs.env) /\ gs.baseURL # "" /\ gs.loggedIn)

----------------------------------------------------------------------------
(* withErrorCapture(page, testInfo, testFn): fx.pc is "running" while testFn
   runs and "capturing" while captureFullErrorContext is awaited, fx.captures
   counts the calls of captureFullErrorContext, fx.outcome is how the call
   ended; while capturing, fx.outcome.v holds the error testFn rejected with *)

\* a wrapper that throws the failure of a capture in place of the error
RethrownUnlessCaptureFails(e, shotOk, htmlOk) ==
    IF shotOk /\ htmlOk THEN e ELSE [isError |-> TRUE, msg |-> "capture failed"]

\* catch (error) { await captureFullErrorContext(...); throw error; }: the
\* helpers catch their own failures, so the error thrown is the one caught
Rethrown(e, shotOk, htmlOk) == e

\* withErrorCapture(page, testInfo, testFn) is called: testFn() is awaited
withErrorCapture ==
    /\ fx.pc \in {"idle", "done"}
    /\ FxStep([NoFx EXCEPT !.pc = "running"])

\* return await testFn(): testFn resolves with v
TestFnResolves(v) ==
    /\ fx.pc = "running"
    /\ FxStep([fx EXCEPT !.pc = "done", !.outcome = [kind |-> "returned", v |-> v]])

\* testFn rejects with e: captureFullErrorContext(page, testInfo, 'failure')
\* is called and awaited
TestFnRejects(e) ==
    /\ fx.pc = "running"
    /\ FxStep([fx EXCEPT !.pc = "capturing", !.rejected = TRUE, !.captures = @ + 1,
                         !.outcome = [kind |-> "caught", v |-> e]])

\* the capture settles, each helper having succeeded or swallowed its
\* failure: throw error
CaptureSettles(shotOk, htmlOk) ==
    /\ fx.pc = "capturing"
    /\ FxStep([fx EXCEPT !.pc = "done",
                         !.attached = captureFullErrorContext(@, shotOk, htmlOk),
                         !.status = IF shotOk /\ htmlOk THEN "captured" ELSE "swallowed",
                         !.outcome = [kind |-> "threw",
                                      v |-> Rethrown(fx.outcome.v, shotOk, htmlOk)]])

NextCapture ==
    \/ withErrorCapture
    \/ PageConsole
    \/ PageRequest
    \/ \E v \in Results : TestFnResolves(v)
    \/ \E e \in Thrown : TestFnRejects(e)
    \/ \E shotOk \in BOOLEAN, htmlOk \in BOOLEAN : CaptureSettles(shotOk, htmlOk)

SpecCapture == InitFixtures /\ [][NextCapture]_vars

\* C27: withErrorCapture returns testFn's result and captures nothing when
\* testFn succeeds; when testFn throws it runs the error capture once and then
\* throws that same error, also when the screenshot or the HTML capture fails.
C27_CaptureThenRethrow ==
    [][(fx.pc \in {"running", "capturing"} /\ fx'.pc = "done") =>
          IF fx.pc = "running"
          THEN /\ fx'.outcome.kind = "returned"
               /\ fx'.captures = 0 /\ fx'.attached = {}
          ELSE /\ fx'.outcome = [kind |-> "threw", v |-> fx.outcome.v]
               /\ fx'.captures = 1
               /\ fx'.attached \subseteq {"error-screenshot", "error-html"}]_vars

C27_Witness ==
    /\ fx.pc = "done" /\ fx.rejected /\ fx.status = "swallowed"
    /\ fx.attached = {"error-html"}
    /\ fx.outcome = [kind |-> "threw", v |-> [isError |-> FALSE, msg |-> "e2"]]

----------------------------------------------------------------------------
(* checkHeadingHierarchy(page): hh.tags are the tag names of the page's
   h1..h6 elements in document order, hh.out the value the latest call
   returned, hh.scanned the number of headings its loop examined *)

TagNames == {<<"H", "1">>, <<"H", "2">>, <<"H", "3">>, <<"H", "4">>, <<"H", "5">>,
             <<"H", "6">>}

\* parseInt of one character
parseInt(c) ==
    CASE c = "1" -> 1 [] c = "2" -> 2 [] c = "3" -> 3
      [] c = "4" -> 4 [] c = "5" -> 5 [] c = "6" -> 6

\* parseInt(el.tagName.charAt(1))
LevelOf(tag) == parseInt(tag[2])

\* a test that lets the first heading of the page be of any level
SkipsLevelAfterFirst(level, previousLevel) ==
    previousLevel > 0 /\ level > previousLevel + 1

\* if (heading.level > previousLevel + 1)
SkipsLevel(level, previousLevel) == level > previousLevel + 1

\* the loop over headings from index i on, with previousLevel as it is there
RECURSIVE ScanHeadings(_, _, _)
ScanHeadings(tags, i, previousLevel) ==
    IF i > Len(tags) THEN [out |-> TRUE, scanned |-> Len(tags)]
    ELSE IF SkipsLevel(LevelOf(tags[i]), previousLevel)
    THEN [out |-> FALSE, scanned |-> i]
    ELSE ScanHeadings(tags, i + 1, LevelOf(tags[i]))

HeadingStep(h) ==
    /\ hh' = h
    /\ UNCHANGED <<data, refs, fx, penv, rt, net, gs>>

\* the page gets one more heading element
AddHeading(tag) ==
    /\ Len(hh.tags) < MaxHeadings
    /\ HeadingStep([NoHeadings EXCEPT !.tags = Append(hh.tags, tag), !.op = "add"])

\* another page is loaded
LoadPage ==
    /\ hh.tags # <<>>
    /\ HeadingStep([NoHeadings EXCEPT !.op = "load"])

\* let previousLevel = 0; for (const heading of headings) { ... } return true
checkHeadingHierarchy ==
    LET r == ScanHeadings(hh.tags, 1, 0)
    IN  HeadingStep([hh EXCEPT !.op = "check", !.out = r.out, !.scanned = r.scanned])

NextHeadings ==
    \/ \E tag \in TagNames : AddHeading(tag)
    \/ LoadPage
    \/ checkHeadingHierarchy

InitHeadings == Init /\ gen = SeedState(0)

SpecHeadings == InitHeadings /\ [][NextHeadings]_vars

\* the level written in a tag name, read off the tag itself
WrittenLevel(tag) == CHOOSE n \in 1..6 : tag = <<"H", ToString(n)>>

\* heading i is more than one level below the heading before it (level 0
\* before the first)
Skips(tags, i) ==
    WrittenLevel(tags[i]) > (IF i = 1 THEN 0 ELSE WrittenLevel(tags[i - 1])) + 1

\* C28: checkHeadingHierarchy returns true exactly when no heading is more
\* than one level below the heading before it, the level before the first
\* heading being 0, and it returns false at the first heading that is.
C28_HeadingHierarchy ==
    hh.op = "check" =>
        /\ hh.out <=> (\A i \in 1..Len(hh.tags) : ~Skips(hh.tags, i))
        /\ ~hh.out =>
                /\ Skips(hh.tags, hh.scanned)
                /\ \A i \in 1..(hh.scanned - 1) : ~Skips(hh.tags, i)

\* a page that goes h1, h3: false at the second heading
C28_Witness ==
    /\ hh.op = "check"
    /\ hh.tags = <<<<"H", "1">>, <<"H", "3">>, <<"H", "2">>>>
    /\ ~hh.out /\ hh.scanned = 2

----------------------------------------------------------------------------
(* Properties of the defaults of an order *)

\* C29: when no items were supplied build() makes exactly one item, of
\* quantity 1 to 5 and with a product in stock; when not overridden status is
\* 'pending', paymentMethod 'Credit Card', the shipping address has country
\* 'United States' and billingAddress is absent; status is always one of
\* pending, processing, shipped, delivered, cancelled.
C29_OrderDefaults ==
    (last.kind = "order" /\ last.op = "build") =>
        /\ ~Has(last.asked, "items") =>
                /\ Len(last.res.items) = 1
                /\ last.res.items[1].quantity \in 1..5
                /\ last.res.items[1].product.inStock = TRUE
        /\ ~Has(last.asked, "status") => last.res.status = "pending"
        /\ ~Has(last.asked, "paymentMethod") => last.res.paymentMethod = "Credit Card"
        /\ ~Has(last.asked, "shippingAddress") =>
                last.res.shippingAddress.country = "United States"
        /\ ~Has(last.asked, "billingAddress") => ~Has(last.res, "billingAddress")
        /\ last.res.status \in OrderStatuses

C29_Witness ==
    /\ last.kind = "order" /\ last.op = "build"
    /\ DOMAIN last.asked = {"status"} /\ last.res.status = "cancelled"
    /\ Len(last.res.items) = 1 /\ last.res.items[1].quantity = 5
    /\ last.res.shippingAddress.country = "United States"

====
